---- MODULE Spec2Model ----
(***************************************************************************)
(* State-machine model of symon's monitoring core (src/src/lib.rs):        *)
(* SystemMonitorRunner::start_monitoring (the polling loop), its helpers   *)
(* check_alerts and log_stats, and SystemMonitorRunner::stop_monitoring    *)
(* running on another thread against the shared Mutex<bool> `running`;     *)
(* the entry points run_system_monitor_with_config and main with their     *)
(* parsing of the configuration; the readers of /proc and /sys; and a      *)
(* second process appending to the same log file.                          *)
(*                                                                         *)
(* Time is counted in whole seconds.  `mono` is real (monotonic) time, the *)
(* one thread::sleep obeys; SystemTime::now() reads mono + skew, and the   *)
(* environment may step the wall clock (skew) while a call runs.  A tick's *)
(* processing time is spent in get_system_stats; thread::sleep sleeps      *)
(* exactly config.interval seconds.  f32 values are exact fractions:       *)
(* rounding is not modelled, NaN and +inf are.                             *)
(*                                                                         *)
(* Specifications: Spec / FairSpec (one runner, a stopping thread, the     *)
(* wall clock), AlertSpec (check_alerts alone), EntrySpec (the entry       *)
(* points in front of the loop), ReaderSpec (the readers alone) and        *)
(* TwoWriterSpec (the runner and a second writer of its log file).         *)
(***************************************************************************)
EXTENDS Integers, Sequences, FiniteSets, TLC

\* ---------------------------------------------------------------- bounds
MaxDuration == 2      \* config.duration ranges over 0..MaxDuration
MaxInterval == 2      \* config.interval ranges over 1..MaxInterval
MaxProc     == 2      \* longest processing time of one tick (get_system_stats)
MaxTicks    == 2      \* ticks modelled over the life of one runner
MaxCalls    == 2      \* start_monitoring() calls on one runner
MaxStops    == 1      \* stop_monitoring() calls on one runner
MaxSteps    == 1      \* one-second steps of the wall clock on one runner
MaxPeerAppends == 2   \* log appends of a second process on the same log file

\* ------------------------------------------------------- input domains
\* <<cpu_threshold, memory_threshold, temperature_threshold>> of
\* MonitorConfig::default()
DefaultThresholds == <<90, 85, 80>>

\* What the host shows while the loop runs, as
\* <<cpu.usage_percent, cpu.temperature, <<memory.used, memory.total>>>>:
\* one reading on the default thresholds, one above them.
HostReadings == {<<90, 80, <<17, 20>>>>, <<91, 81, <<18, 20>>>>}

\* MonitorConfig, without log_file: the model has one log file
MonitorConfig(i, d, t, e) ==
    [interval |-> i, duration |-> d, cpu_threshold |-> t[1],
     memory_threshold |-> t[2], temperature_threshold |-> t[3],
     enable_alerts |-> e]

MonitorConfigs ==
    {MonitorConfig(i, d, DefaultThresholds, e) :
        i \in 1..MaxInterval, d \in 0..MaxDuration, e \in BOOLEAN}

VARIABLES
    config,      \* SystemMonitorRunner.config (immutable after new())
    running,     \* the bool inside SystemMonitorRunner.running
    lock,        \* holder of the Mutex: "free", "loop" or "stop"
    pc,          \* position of the thread inside start_monitoring()
    spc,         \* position of the thread inside stop_monitoring()
    mono,        \* real time, counted from the latest start_monitoring() call
    skew,        \* seconds the wall clock was stepped by since that call
    start_time,  \* local start_time of start_monitoring()
    iteration,   \* local iteration of start_monitoring()
    stats,       \* local stats of the current loop iteration
    printed,     \* what print_stats last wrote to stdout
    alerts,      \* what check_alerts wrote to stderr for the current tick
    logFile,     \* content of config.log_file, a sequence of write() chunks
    result,      \* what start_monitoring() returned: "none", "ok", "err"
    h,           \* history of the run (observation only, never read by the code)
    host,        \* what the entry points and the file readers are given
    peer         \* another symon process appending to the same log_file

vars == <<config, running, lock, pc, spc, mono, skew, start_time, iteration,
          stats, printed, alerts, logFile, result, h, host, peer>>

NoStats == <<>>

\* The loop's specifications abstract a sample to HostReadings and are given
\* no configuration text; no other process shares their log file.
NoHost == [given |-> "nothing"]
NoPeer == [pc |-> "absent"]

\* History of the current start_monitoring() call unless said otherwise.
HistoryInit ==
    [calls       |-> 0,      \* start_monitoring() calls made on the runner
     stops       |-> 0,      \* stop_monitoring() calls completed on the runner
     ticks       |-> 0,      \* ticks started on the runner, over all calls
     samples     |-> <<>>,   \* snapshots sampled, in tick order
     logBase     |-> 0,      \* chunks in the log file when the call began
     failed      |-> FALSE,  \* a log append has failed
     cause       |-> "none", \* why the call returned
     evals       |-> 0,      \* check_alerts invocations
     stopT       |-> -1,     \* real time of the first stop after the entry write
     postAppends |-> 0,      \* log appends completed since that stop
     postSleeps  |-> 0,      \* sleeps completed since that stop
     procTotal   |-> 0,      \* processing time spent in ticks
     steps       |-> 0,      \* wall-clock steps during the runner's calls
     restarted   |-> FALSE]  \* the runner ran a tick after an earlier return

\* ------------------------------------------------------------------ time
\* SystemTime::now() when a call begins, in seconds since UNIX_EPOCH
WallEpoch == MaxSteps + 1

\* SystemTime::now()
now == WallEpoch + mono + skew

\* elapsed() measured from UNIX_EPOCH instead of from `earlier`
elapsed_since_epoch(earlier) == [ok |-> TRUE, as_secs |-> now]

\* SystemTime::elapsed(): Err when the wall clock is behind `earlier`
elapsed(earlier) ==
    IF now >= earlier THEN [ok |-> TRUE, as_secs |-> now - earlier]
                      ELSE [ok |-> FALSE, as_secs |-> 0]

\* ------------------------------------------------------------ snapshots
\* SystemStats, reduced to the readings check_alerts compares; they stand
\* for the whole snapshot in the log line.  pressure_score is derived as
\* in get_memory_stats.
SystemStats(usage, temp, mem) ==
    [usage_percent |-> usage, temperature |-> temp,
     used |-> mem[1], total |-> mem[2]]

\* (used as f32 / total as f32) * 100.0 as an exact fraction num/den;
\* den = 0 stands for the IEEE results of a division by zero:
\* num > 0 is +inf, num = 0 is NaN.
memory_percent(s) == [num |-> s.used * 100, den |-> s.total]

\* f32 `>` of a fraction and a finite threshold (NaN compares false)
FracGt(f, thr) ==
    IF f.den = 0 THEN f.num > 0 ELSE f.num > thr * f.den

\* f32 `>` of two finite readings
FloatGt(a, b) == a > b

\* check_alerts with `>=` in place of `>`
check_alerts_ge(s, c) ==
    (IF s.usage_percent >= c.cpu_threshold THEN <<"High CPU usage">> ELSE <<>>)
    \o (IF memory_percent(s).den # 0
           /\ memory_percent(s).num >= c.memory_threshold * memory_percent(s).den
        THEN <<"High memory usage">> ELSE <<>>)
    \o (IF s.temperature >= c.temperature_threshold
        THEN <<"High CPU temperature">> ELSE <<>>)

\* SystemMonitorRunner::check_alerts: the lines written to stderr
check_alerts(s, c) ==
    (IF FloatGt(s.usage_percent, c.cpu_threshold)
     THEN <<"High CPU usage">> ELSE <<>>)
    \o (IF FracGt(memory_percent(s), c.memory_threshold)
        THEN <<"High memory usage">> ELSE <<>>)
    \o (IF FloatGt(s.temperature, c.temperature_threshold)
        THEN <<"High CPU temperature">> ELSE <<>>)

\* ------------------------------------------------------------- log file
\* serde_json's rendering of an f32: a number, or null for NaN and +-inf
JsonF32(f) == IF f.den = 0 THEN <<"null">> ELSE <<"num", f.num, f.den>>

\* serde_json::to_string(stats): the fields in declaration order
to_string(s) ==
    <<JsonF32([num |-> s.usage_percent, den |-> 1]),
      JsonF32([num |-> s.temperature, den |-> 1]),
      s.total, s.used, JsonF32(memory_percent(s))>>

\* One write() on the file: the record text, or the "\n" writeln! adds.
TextChunk(json) == [kind |-> "text", body |-> json]
NewlineChunk    == [kind |-> "nl", body |-> <<>>]

\* The file as lines: each complete (newline-terminated) line is the
\* sequence of text bodies written since the previous newline.
RECURSIVE LinesFrom(_, _)
LinesFrom(chunks, cur) ==
    IF chunks = <<>> THEN <<>>
    ELSE IF Head(chunks).kind = "nl"
         THEN <<cur>> \o LinesFrom(Tail(chunks), <<>>)
         ELSE LinesFrom(Tail(chunks), Append(cur, Head(chunks).body))

Lines(chunks) == LinesFrom(chunks, <<>>)

\* ----------------------------------------------------------------- Init
\* SystemMonitorRunner::new(config): running = false, nothing started.
Init ==
    /\ config \in MonitorConfigs
    /\ running = FALSE
    /\ lock = "free"
    /\ pc = "idle"
    /\ spc = "idle"
    /\ mono = 0
    /\ skew = 0
    /\ start_time = 0
    /\ iteration = 0
    /\ stats = NoStats
    /\ printed = <<>>
    /\ alerts = <<>>
    /\ logFile = <<>>
    /\ result = "none"
    /\ h = HistoryInit
    /\ host = NoHost
    /\ peer = NoPeer

\* The return of start_monitoring() with value r, for the reason `why`.
Return(r, why) ==
    /\ pc' = "returned"
    /\ result' = r
    /\ h' = [h EXCEPT !.cause = why, !.failed = @ \/ why = "log_error"]

\* ---------------------------------------------------- start_monitoring
\* A caller invokes start_monitoring(): for the first time, or again after
\* an earlier call has returned (&mut self allows one call at a time).
start_monitoring_call ==
    /\ pc \in {"idle", "returned"}
    /\ h.calls < MaxCalls
    /\ pc' = "entry"
    /\ result' = "none"
    /\ printed' = <<>>
    /\ alerts' = <<>>
    /\ stats' = NoStats
    /\ h' = [HistoryInit EXCEPT !.calls = h.calls + 1, !.stops = h.stops,
                                !.ticks = h.ticks, !.steps = h.steps,
                                !.logBase = Len(logFile),
                                !.restarted = h.restarted]
    /\ mono' = 0
    /\ start_time' = 0
    /\ iteration' = 0
    /\ skew' = 0
    /\ UNCHANGED <<host, peer, config, running, lock, spc, logFile>>

\* line 83: self.running.lock().unwrap()
start_monitoring_entry_lock ==
    /\ pc = "entry"
    /\ lock = "free"
    /\ lock' = "loop"
    /\ pc' = "entry_locked"
    /\ UNCHANGED <<host, peer, config, running, spc, mono, skew, start_time,
                   iteration, stats, printed, alerts, logFile, result, h>>

\* start_monitoring_entry_write leaving the flag of an earlier call as it is
start_monitoring_entry_write_first_call ==
    /\ pc = "entry_locked"
    /\ running' = IF h.calls = 1 THEN TRUE ELSE running
    /\ lock' = "free"
    /\ pc' = "init"
    /\ UNCHANGED <<host, peer, config, spc, mono, skew, start_time, iteration,
                   stats, printed, alerts, logFile, result, h>>

\* lines 84-85: *running = true; the guard is dropped at the block's end
start_monitoring_entry_write ==
    /\ pc = "entry_locked"
    /\ running' = TRUE
    /\ lock' = "free"
    /\ pc' = "init"
    /\ UNCHANGED <<host, peer, config, spc, mono, skew, start_time, iteration,
                   stats, printed, alerts, logFile, result, h>>

\* lines 87-88: start_time = SystemTime::now(); iteration = 0
start_monitoring_init ==
    /\ pc = "init"
    /\ start_time' = now
    /\ iteration' = 0
    /\ pc' = "top"
    /\ UNCHANGED <<host, peer, config, running, lock, spc, mono, skew, stats,
                   printed, alerts, logFile, result, h>>

\* line 92: self.running.lock().unwrap() at the top of the loop.
\* The model follows a runner for MaxTicks ticks: past that the loop is
\* followed only as far as observing a stop request.
loop_lock ==
    /\ pc = "top"
    /\ lock = "free"
    /\ h.ticks < MaxTicks \/ ~running
    /\ lock' = "loop"
    /\ pc' = "check"
    /\ UNCHANGED <<host, peer, config, running, spc, mono, skew, start_time,
                   iteration, stats, printed, alerts, logFile, result, h>>

\* loop_check with the guard kept alive into the loop body
loop_check_keeping_guard ==
    /\ pc = "check"
    /\ IF ~running
       THEN /\ Return("ok", "stop")
            /\ lock' = "free"
       ELSE /\ pc' = "increment"
            /\ UNCHANGED <<result, h, lock>>
    /\ UNCHANGED <<host, peer, config, running, spc, mono, skew, start_time,
                   iteration, stats, printed, alerts, logFile>>

\* loop_check with the tick counted before the flag is looked at
loop_check_counting_first ==
    /\ pc = "check"
    /\ lock' = "free"
    /\ iteration' = iteration + 1
    /\ IF ~running
       THEN /\ Return("ok", "stop")
       ELSE /\ pc' = "sample"
            /\ UNCHANGED <<result, h>>
    /\ UNCHANGED <<host, peer, config, running, spc, mono, skew, start_time,
                   stats, printed, alerts, logFile>>

\* lines 93-96: if !*running { break; } and the guard's drop; a break
\* leads to line 119, Ok(()).
loop_check ==
    /\ pc = "check"
    /\ lock' = "free"
    /\ IF ~running
       THEN /\ Return("ok", "stop")
       ELSE /\ pc' = "increment"
            /\ UNCHANGED <<result, h>>
    /\ UNCHANGED <<host, peer, config, running, spc, mono, skew, start_time,
                   iteration, stats, printed, alerts, logFile>>

\* line 98: iteration += 1
loop_increment ==
    /\ pc = "increment"
    /\ iteration' = iteration + 1
    /\ pc' = "sample"
    /\ h' = [h EXCEPT !.ticks = @ + 1, !.restarted = @ \/ h.calls > 1]
    /\ UNCHANGED <<host, peer, config, running, lock, spc, mono, skew,
                   start_time, stats, printed, alerts, logFile, result>>

\* line 99: stats = self.monitor.get_system_stats().  The refresh takes
\* p seconds; the readings are whatever the host shows then.
loop_sample ==
    /\ pc = "sample"
    /\ \E p \in 0..MaxProc, r \in HostReadings :
          /\ mono' = mono + p
          /\ stats' = SystemStats(r[1], r[2], r[3])
          /\ h' = [h EXCEPT !.samples = Append(@, stats'),
                            !.procTotal = @ + p]
    /\ pc' = "print"
    /\ UNCHANGED <<host, peer, config, running, lock, spc, skew, start_time,
                   iteration, printed, alerts, logFile, result>>

\* loop_print_stats followed by check_alerts whatever enable_alerts says
loop_print_stats_then_alerts ==
    /\ pc = "print"
    /\ printed' = <<iteration, stats>>
    /\ alerts' = <<>>
    /\ pc' = "alerts"
    /\ UNCHANGED <<host, peer, config, running, lock, spc, mono, skew,
                   start_time, iteration, stats, logFile, result, h>>

\* line 101: self.print_stats(&stats, iteration)
loop_print_stats ==
    /\ pc = "print"
    /\ printed' = <<iteration, stats>>
    /\ alerts' = <<>>
    /\ pc' = IF config.enable_alerts THEN "alerts" ELSE "log_open"
    /\ UNCHANGED <<host, peer, config, running, lock, spc, mono, skew,
                   start_time, iteration, stats, logFile, result, h>>

\* lines 103-105: self.check_alerts(&stats)
loop_check_alerts ==
    /\ pc = "alerts"
    /\ alerts' = check_alerts(stats, config)
    /\ h' = [h EXCEPT !.evals = @ + 1]
    /\ pc' = "log_open"
    /\ UNCHANGED <<host, peer, config, running, lock, spc, mono, skew,
                   start_time, iteration, stats, printed, logFile, result>>

\* log_stats_open with the error of open() dropped instead of returned
log_stats_open_ignoring_error ==
    /\ pc = "log_open"
    /\ \/ /\ pc' = "log_text"
          /\ UNCHANGED <<result, h>>
       \/ /\ pc' = "duration"
          /\ h' = [h EXCEPT !.failed = TRUE]
          /\ UNCHANGED result
    /\ UNCHANGED <<host, peer, config, running, lock, spc, mono, skew,
                   start_time, iteration, stats, printed, alerts, logFile>>

\* log_stats_open opening with truncate(true) in place of append(true)
log_stats_open_truncating ==
    /\ pc = "log_open"
    /\ \/ /\ pc' = "log_text"
          /\ logFile' = <<>>
          /\ UNCHANGED <<result, h>>
       \/ /\ Return("err", "log_error")
          /\ UNCHANGED logFile
    /\ UNCHANGED <<host, peer, config, running, lock, spc, mono, skew,
                   start_time, iteration, stats, printed, alerts>>

\* line 107 into log_stats, lines 178-184: serialize (cannot fail for a
\* SystemStats) and OpenOptions::new().create(true).append(true).open():
\* the content of the file is left as it is; an Err leaves through `?`.
log_stats_open ==
    /\ pc = "log_open"
    /\ \/ /\ pc' = "log_text"
          /\ UNCHANGED <<result, h>>
       \/ Return("err", "log_error")
    /\ UNCHANGED <<host, peer, config, running, lock, spc, mono, skew,
                   start_time, iteration, stats, printed, alerts, logFile>>

\* line 186, writeln!(file, "{}", json_str): write_fmt hands the File the
\* record text first ...
log_stats_write_text ==
    /\ pc = "log_text"
    /\ \/ /\ logFile' = Append(logFile, TextChunk(to_string(stats)))
          /\ pc' = "log_newline"
          /\ UNCHANGED <<result, h>>
       \/ /\ Return("err", "log_error")
          /\ UNCHANGED logFile
    /\ UNCHANGED <<host, peer, config, running, lock, spc, mono, skew,
                   start_time, iteration, stats, printed, alerts>>

\* log_stats_write_newline as write! would do it: no "\n" is written
log_stats_write_no_newline ==
    /\ pc = "log_newline"
    /\ \/ /\ pc' = "duration"
          /\ result' = result
          /\ h' = [h EXCEPT !.postAppends = IF h.stopT >= 0 THEN @ + 1 ELSE @]
       \/ Return("err", "log_error")
    /\ UNCHANGED <<host, peer, config, running, lock, spc, mono, skew,
                   start_time, iteration, stats, printed, alerts, logFile>>

\* ... and then the "\n"; Ok(()) at line 187 returns into the loop.
log_stats_write_newline ==
    /\ pc = "log_newline"
    /\ \/ /\ logFile' = Append(logFile, NewlineChunk)
          /\ pc' = "duration"
          /\ result' = result
          /\ h' = [h EXCEPT !.postAppends = IF h.stopT >= 0 THEN @ + 1 ELSE @]
       \/ /\ Return("err", "log_error")
          /\ UNCHANGED logFile
    /\ UNCHANGED <<host, peer, config, running, lock, spc, mono, skew,
                   start_time, iteration, stats, printed, alerts>>

\* loop_duration_check with `>` in place of `>=`
loop_duration_check_gt ==
    /\ pc = "duration"
    /\ IF config.duration > 0
       THEN IF ~elapsed(start_time).ok
            THEN Return("err", "clock_error")
            ELSE IF elapsed(start_time).as_secs > config.duration
                 THEN Return("ok", "duration")
                 ELSE /\ pc' = "sleep"
                      /\ UNCHANGED <<result, h>>
       ELSE /\ pc' = "sleep"
            /\ UNCHANGED <<result, h>>
    /\ UNCHANGED <<host, peer, config, running, lock, spc, mono, skew,
                   start_time, iteration, stats, printed, alerts, logFile>>

\* lines 109-114: the duration check; start_time.elapsed()? is an Err when
\* the wall clock now reads earlier than start_time.
loop_duration_check ==
    /\ pc = "duration"
    /\ IF config.duration > 0
       THEN IF ~elapsed(start_time).ok
            THEN Return("err", "clock_error")
            ELSE IF elapsed(start_time).as_secs >= config.duration
                 THEN Return("ok", "duration")
                 ELSE /\ pc' = "sleep"
                      /\ UNCHANGED <<result, h>>
       ELSE /\ pc' = "sleep"
            /\ UNCHANGED <<result, h>>
    /\ UNCHANGED <<host, peer, config, running, lock, spc, mono, skew,
                   start_time, iteration, stats, printed, alerts, logFile>>

\* loop_sleep sleeping two intervals
loop_sleep_twice ==
    /\ pc = "sleep"
    /\ mono' = mono + 2 * config.interval
    /\ pc' = "top"
    /\ h' = [h EXCEPT !.postSleeps = IF h.stopT >= 0 THEN @ + 1 ELSE @]
    /\ UNCHANGED <<host, peer, config, running, lock, spc, skew, start_time,
                   iteration, stats, printed, alerts, logFile, result>>

\* line 116: thread::sleep(Duration::from_secs(self.config.interval))
loop_sleep ==
    /\ pc = "sleep"
    /\ mono' = mono + config.interval
    /\ pc' = "top"
    /\ h' = [h EXCEPT !.postSleeps = IF h.stopT >= 0 THEN @ + 1 ELSE @]
    /\ UNCHANGED <<host, peer, config, running, lock, spc, skew, start_time,
                   iteration, stats, printed, alerts, logFile, result>>

\* Positions of start_monitoring() after its entry write and before its
\* return, outside the two critical sections.
LoopPcs == {"init", "top", "increment", "sample", "print", "alerts",
            "log_open", "log_text", "log_newline", "duration", "sleep"}

\* ----------------------------------------------------- stop_monitoring
\* line 123: self.running.lock().unwrap(), from another thread
stop_monitoring_lock ==
    /\ spc = "idle"
    /\ h.stops < MaxStops
    /\ lock = "free"
    /\ lock' = "stop"
    /\ spc' = "locked"
    /\ UNCHANGED <<host, peer, config, running, pc, mono, skew, start_time,
                   iteration, stats, printed, alerts, logFile, result, h>>

\* lines 124-125: *running = false; the guard is dropped on return
stop_monitoring_write ==
    /\ spc = "locked"
    /\ running' = FALSE
    /\ lock' = "free"
    /\ spc' = "idle"
    /\ h' = [h EXCEPT !.stops = @ + 1,
                      !.stopT = IF pc \in LoopPcs /\ @ < 0 THEN mono ELSE @]
    /\ UNCHANGED <<host, peer, config, pc, mono, skew, start_time, iteration,
                   stats, printed, alerts, logFile, result>>

\* ------------------------------------------------------- environment
\* The wall clock is stepped while a call runs (NTP, an operator):
\* SystemTime is not monotonic.  The code compares one reading of the clock
\* with an earlier one only at line 110 (against start_time, line 87): a
\* step shows there and nowhere else, so the model takes it right before.
clock_step ==
    /\ pc = "duration"
    /\ h.steps < MaxSteps
    /\ \E d \in {-1, 1} : skew' = skew + d
    /\ h' = [h EXCEPT !.steps = @ + 1]
    /\ UNCHANGED <<host, peer, config, running, lock, pc, spc, mono,
                   start_time, iteration, stats, printed, alerts, logFile,
                   result>>

\* --------------------------------------------------------------- specs
LoopThread ==
    \/ start_monitoring_entry_lock
    \/ start_monitoring_entry_write
    \/ start_monitoring_init
    \/ loop_lock
    \/ loop_check
    \/ loop_increment
    \/ loop_sample
    \/ loop_print_stats
    \/ loop_check_alerts
    \/ log_stats_open
    \/ log_stats_write_text
    \/ log_stats_write_newline
    \/ loop_duration_check
    \/ loop_sleep

Next ==
    \/ start_monitoring_call
    \/ start_monitoring_entry_lock
    \/ start_monitoring_entry_write
    \/ start_monitoring_init
    \/ loop_lock
    \/ loop_check
    \/ loop_increment
    \/ loop_sample
    \/ loop_print_stats
    \/ loop_check_alerts
    \/ log_stats_open
    \/ log_stats_write_text
    \/ log_stats_write_newline
    \/ loop_duration_check
    \/ loop_sleep
    \/ stop_monitoring_lock
    \/ stop_monitoring_write
    \/ clock_step

Spec == Init /\ [][Next]_vars

\* Both threads are scheduled: a thread that can take its next step takes
\* it.  Nothing obliges a caller to call either function.
FairSpec == Spec /\ WF_vars(LoopThread) /\ WF_vars(stop_monitoring_write)

\* ------------------------------------------ the /proc and /sys readers
\* A text file as the readers see it: unreadable, or its lines, each line
\* the sequence of its whitespace-separated fields (single spaces between
\* fields, none before the first).  A field is the text of a decimal
\* integer that fits an i32, of a decimal fraction (counted in thousandths),
\* or a word that no number parser accepts.
Unreadable  == [ok |-> FALSE, lines |-> <<>>]
File(lines) == [ok |-> TRUE, lines |-> lines]
Num(n)      == [kind |-> "int", v |-> n]
Dec(m)      == [kind |-> "dec", v |-> m]
Word(w)     == [kind |-> "word", v |-> w]

\* an Option / a Result
None     == [some |-> FALSE]
Some(x)  == [some |-> TRUE, v |-> x]
Err      == [ok |-> FALSE]
Ok(x)    == [ok |-> TRUE, v |-> x]

\* an f32 / f64 value as the exact fraction n/d
F32(n, d) == [num |-> n, den |-> d]

\* str::split_whitespace over a whole file: the fields of all its lines
RECURSIVE split_whitespace(_)
split_whitespace(lines) ==
    IF lines = <<>> THEN <<>>
    ELSE Head(lines) \o split_whitespace(Tail(lines))

\* str::parse::<i32>, ::<u64>, ::<f32> / ::<f64> of one field
parse_i32(fld) == IF fld.kind = "int" THEN Ok(fld.v) ELSE Err

parse_u64(fld) == IF fld.kind = "int" /\ fld.v >= 0 THEN Ok(fld.v) ELSE Err

parse_float(fld) ==
    IF fld.kind = "int" THEN Ok(F32(fld.v, 1))
    ELSE IF fld.kind = "dec" THEN Ok(F32(fld.v, 1000))
    ELSE Err

\* str::trim().parse::<i32>() of a whole file: the trimmed text is one
\* integer and nothing else
trim_parse_i32(lines) ==
    IF Len(split_whitespace(lines)) = 1
    THEN parse_i32(split_whitespace(lines)[1]) ELSE Err

\* f64 as u64: truncated toward zero, negative values saturate to 0
as_u64(f) == IF f.num < 0 THEN 0 ELSE f.num \div f.den

\* SystemMonitor::get_cpu_temperature (the method), over the content of
\* /sys/class/thermal/thermal_zone0/temp
SystemMonitor_get_cpu_temperature(f) ==
    IF f.ok /\ trim_parse_i32(f.lines).ok
    THEN F32(trim_parse_i32(f.lines).v, 1000)
    ELSE F32(0, 1)

\* get_load_average answering zeros where the code answers None
get_load_average_or_zero(f) ==
    IF /\ f.ok
       /\ Len(split_whitespace(f.lines)) >= 3
       /\ \A i \in 1..3 : parse_float(split_whitespace(f.lines)[i]).ok
    THEN Some([i \in 1..3 |-> parse_float(split_whitespace(f.lines)[i]).v])
    ELSE Some([i \in 1..3 |-> F32(0, 1)])

\* SystemMonitor::get_load_average, over the content of /proc/loadavg
get_load_average(f) ==
    IF f.ok
    THEN LET parts == split_whitespace(f.lines) IN
         IF Len(parts) >= 3
         THEN IF /\ parse_float(parts[1]).ok
                 /\ parse_float(parts[2]).ok
                 /\ parse_float(parts[3]).ok
              THEN Some(<<parse_float(parts[1]).v, parse_float(parts[2]).v,
                          parse_float(parts[3]).v>>)
              ELSE None
         ELSE None
    ELSE None

\* read_uptime, over the content of /proc/uptime: the first field, "0" if
\* there is none
read_uptime(f) ==
    IF f.ok
    THEN LET parts == split_whitespace(f.lines)
             first == IF parts = <<>> THEN Num(0) ELSE parts[1]
         IN  IF parse_float(first).ok THEN as_u64(parse_float(first).v) ELSE 0
    ELSE 0

\* Option<String>::unwrap_or_default
unwrap_or_default(o) == IF o.some THEN o.v ELSE ""

\* SystemMonitor::get_system_info
get_system_info(hst) ==
    [hostname |-> unwrap_or_default(hst.hostname),
     uptime   |-> read_uptime(hst.uptime)]

\* SystemMonitor::get_cpu_stats: the two fields read from files
\* (usage_percent and cores come from sysinfo, see HostReadings)
get_cpu_stats(hst) ==
    [temperature |-> SystemMonitor_get_cpu_temperature(hst.thermal),
     load_avg    |-> get_load_average(hst.loadavg)]

\* SystemMonitor::get_system_stats: a SystemStats, never an error
get_system_stats(hst) ==
    [cpu         |-> get_cpu_stats(hst),
     system_info |-> get_system_info(hst)]

\* get_cpu_temperature (the free function), same source
get_cpu_temperature(f) ==
    IF f.ok /\ trim_parse_i32(f.lines).ok
    THEN F32(trim_parse_i32(f.lines).v, 1000)
    ELSE F32(0, 1)

\* str::starts_with("cpu ") of a line
starts_with_cpu(line) == Len(line) >= 2 /\ line[1] = Word("cpu")

\* values[i].parse().unwrap_or(0), i counted from 0 as in the code
value_or_0(values, i) ==
    IF parse_u64(values[i + 1]).ok THEN parse_u64(values[i + 1]).v ELSE 0

\* the HashMap after the inserts of lines 341-347
cpu_line_map(values) ==
    IF Len(values) >= 5
    THEN [k \in {"user", "nice", "system", "idle"} |->
             CASE k = "user"   -> value_or_0(values, 1)
               [] k = "nice"   -> value_or_0(values, 2)
               [] k = "system" -> value_or_0(values, 3)
               [] k = "idle"   -> value_or_0(values, 4)]
         @@ (IF Len(values) > 5
             THEN [k \in {"iowait"} |-> value_or_0(values, 5)]
             ELSE <<>>)
    ELSE <<>>

\* the loop of lines 338-351: the first line starting with "cpu " decides
RECURSIVE proc_stat_lines(_)
proc_stat_lines(lines) ==
    IF lines = <<>> THEN <<>>
    ELSE IF starts_with_cpu(Head(lines)) THEN cpu_line_map(Head(lines))
    ELSE proc_stat_lines(Tail(lines))

\* read_proc_stat, over the content of /proc/stat
read_proc_stat(f) == IF f.ok THEN Ok(proc_stat_lines(f.lines)) ELSE Err

\* What the files may hold.
ThermalFiles ==
    {Unreadable, File(<<>>),
     File(<<<<Num(45000)>>>>), File(<<<<>>, <<Num(0)>>, <<>>>>),
     File(<<<<Num(-1000)>>>>), File(<<<<Num(-1)>>>>),
     File(<<<<Dec(45500)>>>>), File(<<<<Word("n/a")>>>>),
     File(<<<<Num(45000), Num(1)>>>>)}

LoadavgFiles ==
    {Unreadable, File(<<>>),
     File(<<<<Dec(520), Dec(480), Num(1), Word("2/345"), Num(6789)>>>>),
     File(<<<<Dec(520), Dec(480)>>>>),
     File(<<<<Dec(520), Word("x"), Dec(410)>>>>),
     File(<<<<Num(0), Num(0), Num(0)>>>>)}

UptimeFiles ==
    {Unreadable, File(<<>>),
     File(<<<<Dec(12345670), Dec(54321000)>>>>),
     File(<<<<Word("up"), Dec(12345670)>>>>),
     File(<<<<Num(7)>>>>), File(<<<<Dec(-1500)>>>>)}

HostNames == {None, Some("box")}

StatFiles ==
    {Unreadable, File(<<>>),
     File(<<<<Word("cpu"), Num(10), Num(1), Num(5), Num(100), Num(2), Num(0)>>,
            <<Word("cpu0"), Num(10), Num(1), Num(5), Num(100), Num(2),
              Num(0)>>>>),
     File(<<<<Word("intr"), Num(9)>>,
            <<Word("cpu"), Num(10), Num(1), Num(5), Num(100)>>>>),
     File(<<<<Word("cpu"), Num(10), Num(1), Num(5)>>>>),
     File(<<<<Word("cpu0"), Num(10), Num(1), Num(5), Num(100)>>,
            <<Word("ctxt"), Num(77)>>>>),
     File(<<<<Word("cpu"), Word("x"), Num(-1), Num(5), Num(100)>>>>)}

Hosts ==
    [given : {"files"}, thermal : ThermalFiles, loadavg : LoadavgFiles,
     uptime : UptimeFiles, hostname : HostNames, stat : StatFiles]

\* A caller about to use one of the readers on some host.
ReaderInit ==
    /\ host \in Hosts
    /\ config = MonitorConfig(1, 0, DefaultThresholds, TRUE)
    /\ running = FALSE
    /\ lock = "free"
    /\ pc = "reader"
    /\ spc = "idle"
    /\ mono = 0
    /\ skew = 0
    /\ start_time = 0
    /\ iteration = 0
    /\ stats = NoStats
    /\ printed = <<>>
    /\ alerts = <<>>
    /\ logFile = <<>>
    /\ result = "none"
    /\ h = HistoryInit
    /\ peer = NoPeer

\* monitor.get_system_stats()
get_system_stats_call ==
    /\ pc = "reader"
    /\ stats' = get_system_stats(host)
    /\ result' = "ok"
    /\ pc' = "read_system_stats"
    /\ UNCHANGED <<host, peer, config, running, lock, spc, mono, skew,
                   start_time, iteration, printed, alerts, logFile, h>>

\* get_cpu_temperature()
get_cpu_temperature_call ==
    /\ pc = "reader"
    /\ stats' = get_cpu_temperature(host.thermal)
    /\ result' = "ok"
    /\ pc' = "read_cpu_temperature"
    /\ UNCHANGED <<host, peer, config, running, lock, spc, mono, skew,
                   start_time, iteration, printed, alerts, logFile, h>>

\* read_proc_stat()
read_proc_stat_call ==
    /\ pc = "reader"
    /\ IF read_proc_stat(host.stat).ok
       THEN stats' = read_proc_stat(host.stat).v /\ result' = "ok"
       ELSE stats' = NoStats /\ result' = "err"
    /\ pc' = "read_proc_stat"
    /\ UNCHANGED <<host, peer, config, running, lock, spc, mono, skew,
                   start_time, iteration, printed, alerts, logFile, h>>

ReaderNext ==
    \/ get_system_stats_call
    \/ get_cpu_temperature_call
    \/ read_proc_stat_call

ReaderSpec == ReaderInit /\ [][ReaderNext]_vars

\* ------------------------------------------------------ the entry points
\* A configuration text as serde_json reads it: not JSON at all, JSON that
\* is not an object, or an object as the sequence of its members
\* <<key, value>>.  A value is a non-negative integer, a negative integer,
\* a fraction (in thousandths), a boolean, a string or null.
NotJson         == [json |-> FALSE, object |-> FALSE, members |-> <<>>]
JsonScalar      == [json |-> TRUE, object |-> FALSE, members |-> <<>>]
JsonObject(mbs) == [json |-> TRUE, object |-> TRUE, members |-> mbs]
JUInt(n)  == [t |-> "uint", v |-> n]
JNeg(n)   == [t |-> "negint", v |-> n]
JFloat(m) == [t |-> "float", v |-> m]
JBool(b)  == [t |-> "bool", v |-> b]
JStr(str) == [t |-> "string", v |-> str]
JNull     == [t |-> "null", v |-> 0]

\* the fields of MonitorConfig by type
U64Keys    == {"interval", "duration"}
F32Keys    == {"cpu_threshold", "memory_threshold", "temperature_threshold"}
ConfigKeys == U64Keys \cup F32Keys \cup {"enable_alerts", "log_file"}

\* MonitorConfig::default(); its log_file is the model's one log file
DefaultConfig == MonitorConfig(5, 0, DefaultThresholds, TRUE)

\* The derived Deserialize of one member's value as the type of field k.
\* The model's thresholds are whole numbers: a fraction is read as its
\* whole part.
field_value(k, val) ==
    CASE k \in U64Keys ->
           IF val.t = "uint" THEN Ok(val.v) ELSE Err
      [] k \in F32Keys ->
           IF val.t \in {"uint", "negint"} THEN Ok(val.v)
           ELSE IF val.t = "float" THEN Ok(val.v \div 1000)
           ELSE Err
      [] k = "enable_alerts" ->
           IF val.t = "bool" THEN Ok(val.v) ELSE Err
      [] k = "log_file" ->
           IF val.t = "string" THEN Ok(val.v) ELSE Err

\* The derived visit_map: members in order, an unknown key skipped, a
\* repeated key or a value of the wrong type an error, and after the last
\* member an error for any field still missing.
RECURSIVE visit_map(_, _)
visit_map(members, seen) ==
    IF members = <<>>
    THEN IF DOMAIN seen = ConfigKeys
         THEN Ok(MonitorConfig(seen["interval"], seen["duration"],
                               <<seen["cpu_threshold"],
                                 seen["memory_threshold"],
                                 seen["temperature_threshold"]>>,
                               seen["enable_alerts"]))
         ELSE Err
    ELSE LET k   == Head(members)[1]
             val == Head(members)[2]
         IN  IF k \notin ConfigKeys THEN visit_map(Tail(members), seen)
             ELSE IF k \in DOMAIN seen THEN Err
             ELSE IF ~field_value(k, val).ok THEN Err
             ELSE visit_map(Tail(members),
                            seen @@ (k :> field_value(k, val).v))

\* serde_json::from_str::<MonitorConfig>
from_str(doc) ==
    IF doc.json /\ doc.object THEN visit_map(doc.members, <<>>) ELSE Err

\* serde_json::to_string(&config) of main, line 34: the fields in
\* declaration order, an f32 with its fraction
config_to_string(c) ==
    JsonObject(<<<<"interval", JUInt(c.interval)>>,
                 <<"duration", JUInt(c.duration)>>,
                 <<"cpu_threshold", JFloat(c.cpu_threshold * 1000)>>,
                 <<"memory_threshold", JFloat(c.memory_threshold * 1000)>>,
                 <<"temperature_threshold",
                   JFloat(c.temperature_threshold * 1000)>>,
                 <<"enable_alerts", JBool(c.enable_alerts)>>,
                 <<"log_file", JStr("system_monitor.log")>>>>)

\* The texts given as configuration.
FullMembers ==
    <<<<"interval", JUInt(1)>>, <<"duration", JUInt(1)>>,
      <<"cpu_threshold", JFloat(90000)>>, <<"memory_threshold", JUInt(85)>>,
      <<"temperature_threshold", JFloat(80000)>>,
      <<"enable_alerts", JBool(TRUE)>>, <<"log_file", JStr("m.log")>>>>

\* members mbs with member i replaced by mb
WithMember(mbs, i, mb) == [mbs EXCEPT ![i] = mb]

ConfigTexts ==
    {NotJson, JsonScalar, JsonObject(<<>>),
     JsonObject(FullMembers),
     JsonObject(<<<<"comment", JStr("night run")>>>> \o FullMembers),
     JsonObject(SubSeq(FullMembers, 1, 6)),
     JsonObject(Tail(FullMembers)),
     JsonObject(FullMembers \o <<<<"interval", JUInt(2)>>>>),
     JsonObject(WithMember(FullMembers, 1, <<"interval", JNeg(-1)>>)),
     JsonObject(WithMember(FullMembers, 1, <<"interval", JStr("1")>>)),
     JsonObject(WithMember(FullMembers, 2, <<"duration", JFloat(1500)>>)),
     JsonObject(WithMember(FullMembers, 3, <<"cpu_threshold", JNull>>)),
     JsonObject(WithMember(FullMembers, 6, <<"enable_alerts", JUInt(1)>>)),
     JsonObject(WithMember(FullMembers, 7, <<"log_file", JNull>>))}

\* the config_json argument: a null pointer or a C string
NullPtr   == [null |-> TRUE, text |-> NotJson]
CStr(doc) == [null |-> FALSE, text |-> doc]

\* the file named by args[1]
ConfigFile(doc) == [ok |-> TRUE, text |-> doc]
NoConfigFile    == [ok |-> FALSE, text |-> NotJson]

\* What an entry point is given: run_system_monitor_with_config its
\* argument; main no argument, or the path of a file to read.
EntryInputs ==
    {[given |-> "ffi", arg |-> FALSE, file |-> NoConfigFile, config_json |-> q]
        : q \in {NullPtr} \cup {CStr(d) : d \in ConfigTexts}}
    \cup {[given |-> "main", arg |-> FALSE, file |-> NoConfigFile,
           config_json |-> NullPtr]}
    \cup {[given |-> "main", arg |-> TRUE, file |-> f, config_json |-> NullPtr]
            : f \in {NoConfigFile} \cup {ConfigFile(d) : d \in ConfigTexts}}

\* before any MonitorConfig exists
NoConfig == [interval |-> 0, duration |-> 0, cpu_threshold |-> 0,
             memory_threshold |-> 0, temperature_threshold |-> 0,
             enable_alerts |-> FALSE]

EntryInit ==
    /\ host \in EntryInputs
    /\ config = NoConfig
    /\ running = FALSE
    /\ lock = "free"
    /\ pc = host.given
    /\ spc = "idle"
    /\ mono = 0
    /\ skew = 0
    /\ start_time = 0
    /\ iteration = 0
    /\ stats = NoStats
    /\ printed = <<>>
    /\ alerts = <<>>
    /\ logFile = <<>>
    /\ result = "none"
    /\ h = HistoryInit
    /\ peer = NoPeer

\* main, lines 8-27: no argument gives the default configuration; a file
\* that cannot be read or parsed ends the process with exit(1).
main_read_config ==
    /\ pc = "main"
    /\ IF ~host.arg
       THEN config' = DefaultConfig /\ pc' = "main_call"
       ELSE IF host.file.ok /\ from_str(host.file.text).ok
            THEN config' = from_str(host.file.text).v /\ pc' = "main_call"
            ELSE config' = config /\ pc' = "rejected"
    /\ UNCHANGED <<host, peer, running, lock, spc, mono, skew, start_time,
                   iteration, stats, printed, alerts, logFile, result, h>>

\* what run_system_monitor_with_config is called with: its argument, or
\* from main (lines 34-37) the configuration serialized again
config_json ==
    IF pc = "main_call" THEN CStr(config_to_string(config))
    ELSE host.config_json

\* run_system_monitor_with_config_parse falling back to the default
\* configuration where the code returns 1
run_system_monitor_with_config_parse_or_default ==
    /\ pc \in {"ffi", "main_call"}
    /\ IF config_json.null
       THEN config' = DefaultConfig /\ pc' = "ffi_new"
       ELSE IF from_str(config_json.text).ok
            THEN config' = from_str(config_json.text).v /\ pc' = "ffi_new"
            ELSE config' = DefaultConfig /\ pc' = "ffi_new"
    /\ UNCHANGED <<host, peer, running, lock, spc, mono, skew, start_time,
                   iteration, stats, printed, alerts, logFile, result, h>>

\* run_system_monitor_with_config, lines 420-436: a null pointer gives the
\* default configuration, a text that does not parse returns 1.
run_system_monitor_with_config_parse ==
    /\ pc \in {"ffi", "main_call"}
    /\ IF config_json.null
       THEN config' = DefaultConfig /\ pc' = "ffi_new"
       ELSE IF from_str(config_json.text).ok
            THEN config' = from_str(config_json.text).v /\ pc' = "ffi_new"
            ELSE config' = config /\ pc' = "rejected"
    /\ UNCHANGED <<host, peer, running, lock, spc, mono, skew, start_time,
                   iteration, stats, printed, alerts, logFile, result, h>>

\* lines 438-440: SystemMonitorRunner::new(config) and the call of
\* start_monitoring() on it.  The runner is local: nothing else calls it.
run_system_monitor_with_config_run ==
    /\ pc = "ffi_new"
    /\ running' = FALSE
    /\ lock' = "free"
    /\ pc' = "entry"
    /\ result' = "none"
    /\ printed' = <<>>
    /\ alerts' = <<>>
    /\ stats' = NoStats
    /\ h' = [HistoryInit EXCEPT !.calls = 1, !.logBase = Len(logFile)]
    /\ mono' = 0
    /\ start_time' = 0
    /\ iteration' = 0
    /\ skew' = 0
    /\ UNCHANGED <<host, peer, config, spc, logFile>>

\* The status run_system_monitor_with_config returns (lines 433, 440-446)
\* and main passes to exit (lines 16, 22, 39-42); -1 while it runs.
status ==
    IF pc = "rejected" THEN 1
    ELSE IF pc = "returned" THEN (IF result = "ok" THEN 0 ELSE 1)
    ELSE -1

EntryNext ==
    \/ main_read_config
    \/ run_system_monitor_with_config_parse
    \/ run_system_monitor_with_config_run
    \/ start_monitoring_entry_lock
    \/ start_monitoring_entry_write
    \/ start_monitoring_init
    \/ loop_lock
    \/ loop_check
    \/ loop_increment
    \/ loop_sample
    \/ loop_print_stats
    \/ loop_check_alerts
    \/ log_stats_open
    \/ log_stats_write_text
    \/ log_stats_write_newline
    \/ loop_duration_check
    \/ loop_sleep
    \/ clock_step

EntrySpec == EntryInit /\ [][EntryNext]_vars

\* ------------------------------------------ two writers, one log file
\* A second symon process whose config.log_file names the same file: its
\* start_monitoring() loop, reduced to the log_stats call of each tick.
\* Each process has its own File, opened with append(true); a write() of
\* either lands at the end of the file as it is at that moment.
PeerInit == [pc |-> "tick", stats |-> NoStats, appended |-> 0]

\* the peer's line 99 and line 107 into log_stats, lines 178-184
peer_log_stats_open ==
    /\ peer.pc = "tick"
    /\ peer.appended < MaxPeerAppends
    /\ \/ \E r \in HostReadings :
             peer' = [peer EXCEPT !.pc = "log_text",
                                  !.stats = SystemStats(r[1], r[2], r[3])]
       \/ peer' = [peer EXCEPT !.pc = "returned"]
    /\ UNCHANGED <<host, config, running, lock, pc, spc, mono, skew,
                   start_time, iteration, stats, printed, alerts, logFile,
                   result, h>>

\* the peer's line 186: the record text ...
peer_log_stats_write_text ==
    /\ peer.pc = "log_text"
    /\ \/ /\ logFile' = Append(logFile, TextChunk(to_string(peer.stats)))
          /\ peer' = [peer EXCEPT !.pc = "log_newline"]
       \/ /\ peer' = [peer EXCEPT !.pc = "returned"]
          /\ UNCHANGED logFile
    /\ UNCHANGED <<host, config, running, lock, pc, spc, mono, skew,
                   start_time, iteration, stats, printed, alerts, result, h>>

\* ... and then the "\n"
peer_log_stats_write_newline ==
    /\ peer.pc = "log_newline"
    /\ \/ /\ logFile' = Append(logFile, NewlineChunk)
          /\ peer' = [peer EXCEPT !.pc = "tick", !.appended = @ + 1]
       \/ /\ peer' = [peer EXCEPT !.pc = "returned"]
          /\ UNCHANGED logFile
    /\ UNCHANGED <<host, config, running, lock, pc, spc, mono, skew,
                   start_time, iteration, stats, printed, alerts, result, h>>

TwoWriterInit ==
    /\ config \in MonitorConfigs
    /\ running = FALSE
    /\ lock = "free"
    /\ pc = "idle"
    /\ spc = "idle"
    /\ mono = 0
    /\ skew = 0
    /\ start_time = 0
    /\ iteration = 0
    /\ stats = NoStats
    /\ printed = <<>>
    /\ alerts = <<>>
    /\ logFile = <<>>
    /\ result = "none"
    /\ h = HistoryInit
    /\ host = NoHost
    /\ peer = PeerInit

TwoWriterNext ==
    \/ start_monitoring_call
    \/ start_monitoring_entry_lock
    \/ start_monitoring_entry_write
    \/ start_monitoring_init
    \/ loop_lock
    \/ loop_check
    \/ loop_increment
    \/ loop_sample
    \/ loop_print_stats
    \/ loop_check_alerts
    \/ log_stats_open
    \/ log_stats_write_text
    \/ log_stats_write_newline
    \/ loop_duration_check
    \/ loop_sleep
    \/ peer_log_stats_open
    \/ peer_log_stats_write_text
    \/ peer_log_stats_write_newline

TwoWriterSpec == TwoWriterInit /\ [][TwoWriterNext]_vars

\* -------------------------------------------- check_alerts on its own
\* The evaluator over a wider range of snapshots and thresholds: the state
\* of a first tick at line 103, with alerts enabled, for every reading and
\* threshold below.  Memory readings include total = 0 (NaN and +inf).
AlertUsages       == {89, 90, 91}
AlertTemperatures == {79, 80, 81}
AlertMemReadings  == {<<16, 20>>, <<17, 20>>, <<18, 20>>, <<0, 0>>, <<1, 0>>}
AlertThresholds   == {DefaultThresholds, <<91, 90, 81>>, <<-1, -1, -1>>}

AlertInit ==
    /\ \E t \in AlertThresholds : config = MonitorConfig(1, 0, t, TRUE)
    /\ \E u \in AlertUsages, t \in AlertTemperatures, m \in AlertMemReadings :
          stats = SystemStats(u, t, m)
    /\ running = TRUE
    /\ lock = "free"
    /\ pc = "alerts"
    /\ spc = "idle"
    /\ mono = 0
    /\ skew = 0
    /\ start_time = WallEpoch
    /\ iteration = 1
    /\ printed = <<iteration, stats>>
    /\ alerts = <<>>
    /\ logFile = <<>>
    /\ result = "none"
    /\ h = [HistoryInit EXCEPT !.calls = 1, !.ticks = 1, !.samples = <<stats>>]
    /\ host = NoHost
    /\ peer = NoPeer

AlertSpec == AlertInit /\ [][loop_check_alerts]_vars

\* ================================================================ claims
Range(seq) == {seq[i] : i \in 1..Len(seq)}

\* Positions of a tick after the alert evaluation of line 104
AfterAlertsPcs == {"log_open", "log_text", "log_newline", "duration", "sleep"}

\* C7: the evaluator emits the high-CPU alert iff usage_percent >
\* cpu_threshold, the high-memory alert iff (used/total)*100 >
\* memory_threshold, the high-temperature alert iff temperature >
\* temperature_threshold: each comparison strict, each decision independent
\* of the other two, and the alerts a function of the snapshot and the
\* configuration alone.
C7_AlertsIffAboveThreshold ==
    (pc \in AfterAlertsPcs /\ config.enable_alerts) =>
        /\ ("High CPU usage" \in Range(alerts))
              <=> (stats.usage_percent > config.cpu_threshold)
        /\ ("High memory usage" \in Range(alerts))
              <=> \/ stats.total > 0
                     /\ stats.used * 100 > config.memory_threshold * stats.total
                  \/ stats.total = 0 /\ stats.used > 0
        /\ ("High CPU temperature" \in Range(alerts))
              <=> (stats.temperature > config.temperature_threshold)
        /\ Len(alerts) = Cardinality(Range(alerts))

\* C7 witness: a snapshot with every reading equal to its threshold has been
\* evaluated and raised no alert.
C7_Witness ==
    /\ pc = "log_open"
    /\ h.evals = 1
    /\ stats.usage_percent = config.cpu_threshold
    /\ stats.temperature = config.temperature_threshold
    /\ stats.total > 0
    /\ stats.used * 100 = config.memory_threshold * stats.total
    /\ alerts = <<>>

\* Positions of a tick between the increment of line 98 and the completion
\* of its log append
MidTickPcs == {"sample", "print", "alerts", "log_open", "log_text",
               "log_newline"}

\* Ticks of the current call whose log append has completed
TicksCompleted == IF pc \in MidTickPcs THEN iteration - 1 ELSE iteration

\* What the current call has written to the log file, as lines
AppendedLines == Lines(SubSeq(logFile, h.logBase + 1, Len(logFile)))

\* ceil(d / i)
Ceil(d, i) == (d + i - 1) \div i

\* C1 (state part): after a stop_monitoring() that clears the flag at time
\* T while start_monitoring() is in its loop, the loop completes at most one
\* further log append and one further sleep, starts no tick after that
\* sleep, and is never later than T + interval + one tick's processing time.
C1_AfterStop ==
    (h.stopT >= 0) =>
        /\ h.postAppends <= 1
        /\ h.postSleeps <= 1
        /\ (h.postSleeps = 1) => (pc \in {"top", "check", "returned"})
        /\ mono - h.stopT <= config.interval + MaxProc

C3_OneLinePerTick ==
    (~h.failed) =>
        /\ Len(AppendedLines) = TicksCompleted
        /\ Len(h.samples) = (IF pc = "sample" THEN iteration - 1 ELSE iteration)
        /\ \A k \in 1..Len(AppendedLines) :
              AppendedLines[k] = <<to_string(h.samples[k])>>

\* C3 witness: two ticks completed with different snapshots, two lines.
C3_Witness ==
    /\ ~h.failed
    /\ TicksCompleted = 2
    /\ Len(AppendedLines) = 2
    /\ h.samples[1] # h.samples[2]
    /\ pc = "sleep"

\* C4: with enable_alerts false check_alerts is never invoked; with
\* enable_alerts true it has been invoked once for every tick sampled.
C4_EvaluatorCalls ==
    /\ (~config.enable_alerts) => h.evals = 0
    /\ config.enable_alerts =>
          h.evals = Len(h.samples) - (IF pc \in {"print", "alerts"} THEN 1 ELSE 0)

\* C4 witness: alerts disabled, two ticks sampled and logged with readings
\* above every threshold, no evaluation.
C4_Witness ==
    /\ ~config.enable_alerts
    /\ Len(h.samples) = 2
    /\ pc = "duration"
    /\ stats.usage_percent > config.cpu_threshold
    /\ h.evals = 0

\* C5: once a log append of tick k has failed, start_monitoring() has
\* returned that error: there is no step after the failure (no duration
\* check, no sleep, no further sample, evaluation or append, no retry), and
\* the presentation and alert evaluation of tick k stand.
C5_LogErrorReturnsAtOnce ==
    h.failed =>
        /\ pc = "returned"
        /\ result = "err"
        /\ h.cause = "log_error"
        /\ Len(h.samples) = iteration
        /\ stats = h.samples[iteration]
        /\ printed = <<iteration, stats>>
        /\ h.evals = (IF config.enable_alerts THEN iteration ELSE 0)
        /\ config.enable_alerts => alerts = check_alerts(stats, config)
        /\ Len(AppendedLines) = iteration - 1
        /\ mono = (iteration - 1) * config.interval + h.procTotal

\* C5 witness: the append of the second tick failed on its record write,
\* after that tick raised its three alerts.
C5_Witness ==
    /\ h.failed
    /\ pc = "returned"
    /\ result = "err"
    /\ iteration = 2
    /\ Len(alerts) = 3
    /\ Len(AppendedLines) = 1
    /\ Len(logFile) = h.logBase + 2

\* C6: every return of start_monitoring() is caused by an observed stop
\* request, by the configured duration (> 0) having elapsed, or by a logging
\* error, and by nothing else: an Err is returned only for a failed append,
\* an Ok with duration = 0 only for an observed stop.
C6_ReturnCauses ==
    (pc = "returned") =>
        /\ h.cause \in {"stop", "duration", "log_error"}
        /\ (result = "err") <=> h.failed
        /\ (result = "ok" /\ config.duration = 0) => h.cause = "stop"

\* C8: the lifecycle is Idle -> Running -> Stopped with Stopped terminal:
\* after a return of start_monitoring(), no later call brings the runner
\* back into its loop or produces a further tick.
C8_StoppedIsTerminal ==
    (h.calls > 1) => (pc \notin LoopPcs /\ ~h.restarted)

\* C9: one stop_monitoring() against one start_monitoring() is honoured
\* wherever it falls: once the stop has completed, the loop's next check of
\* the flag finds it cleared (so the loop stops and the call returns).
C9_StopHonoured ==
    (h.calls = 1 /\ h.stops = 1 /\ spc = "idle" /\ pc = "check") => ~running

\* C10: the loop thread holds the lock only for the write at entry and the
\* read at the top of an iteration: wherever else it is (sampling,
\* presenting, evaluating, appending, checking the duration, sleeping) it
\* does not hold it, and a stop_monitoring() arriving there finds it free.
C10_LockOnlyAroundFlagAccess ==
    /\ (lock = "loop") <=> (pc \in {"entry_locked", "check"})
    /\ (lock = "stop") <=> (spc = "locked")
    /\ (pc \in LoopPcs /\ spc = "idle") => lock = "free"

\* C10 witness: stop_monitoring() holds the lock and is about to clear the
\* flag while the loop thread is between ticks, about to sleep.
C10_Witness ==
    /\ pc = "sleep"
    /\ spc = "locked"
    /\ lock = "stop"
    /\ running

\* A call that ran to its configured duration undisturbed: no stop request
\* on the runner, no failed append, no step of the wall clock.
EndedOnDuration ==
    /\ pc = "returned"
    /\ h.cause = "duration"
    /\ h.stops = 0
    /\ h.steps = 0
    /\ ~h.failed

\* Positions of a tick before its sampling, the top-of-loop check included
BeforeSamplePcs == {"top", "check", "increment", "sample"}

\* C11 as claimed: with duration D > 0, no stop and no logging error, the
\* call returns at an elapsed time R with D <= R <= D + interval, the final
\* sample logged and no sleep slept after the tick whose check succeeded.
C11_DurationFloorAndCeiling ==
    EndedOnDuration =>
        /\ config.duration > 0
        /\ config.duration <= mono
        /\ mono <= config.duration + config.interval
        /\ Len(AppendedLines) = iteration
        /\ mono = (iteration - 1) * config.interval + h.procTotal

\* C11 as amended: with duration D > 0, no stop, no logging error and no
\* step of the wall clock, the call returns at an elapsed time R >= D, with
\* the final sample logged as the last line and no sleep slept after the
\* tick whose check succeeded; every sleep begins before D has elapsed, so
\* every tick after the first begins before D + interval, and R exceeds D
\* by less than one interval plus the processing time of the final tick
\* (by less than one interval when ticks take no time).
C11_DurationFloorPlusFinalTick ==
    /\ EndedOnDuration =>
          /\ config.duration > 0
          /\ config.duration <= mono
          /\ elapsed(start_time).as_secs = mono
          /\ mono < config.duration + config.interval + MaxProc
          /\ (h.procTotal = 0) => mono < config.duration + config.interval
          /\ Len(AppendedLines) = iteration
          /\ AppendedLines[iteration] = <<to_string(stats)>>
          /\ mono = (iteration - 1) * config.interval + h.procTotal
    /\ (config.duration > 0 /\ h.steps = 0) =>
          /\ (pc = "sleep") => mono < config.duration
          /\ (pc \in BeforeSamplePcs /\ iteration >= 1)
                => mono < config.duration + config.interval

\* C11 witness: D = 1, interval = 1: the first tick took no time, its check
\* found 0 < D and slept; the second tick took MaxProc seconds and the call
\* returned at R = D + interval + MaxProc - 1, beyond D + interval.
C11_Witness ==
    /\ EndedOnDuration
    /\ config.duration = 1
    /\ config.interval = 1
    /\ iteration = 2
    /\ h.procTotal = MaxProc
    /\ mono = config.duration + config.interval + MaxProc - 1

\* s is a prefix of t
IsPrefix(s, t) == Len(s) <= Len(t) /\ SubSeq(t, 1, Len(s)) = s

\* C12: no step alters what the log file already holds: over every step of
\* every tick of successive start_monitoring() calls on the same log_file,
\* the file before the step is a prefix of the file after it, write for
\* write and line for line; nothing is truncated or overwritten.
C12_AppendsKeepContent ==
    [][/\ IsPrefix(logFile, logFile')
       /\ IsPrefix(Lines(logFile), Lines(logFile'))]_vars

\* C12 witness: a second run on the same log_file found the lines of the
\* first and has appended a line of its own after them.
C12_Witness ==
    /\ h.calls = 2
    /\ Len(Lines(SubSeq(logFile, 1, h.logBase))) >= 1
    /\ Len(AppendedLines) >= 1
    /\ Len(Lines(logFile)) = Len(Lines(SubSeq(logFile, 1, h.logBase)))
                                + Len(AppendedLines)

\* The positions start_monitoring() can move to from position p
StepsAfter(p) ==
    CASE p = "top" -> {"check"}
      [] p = "check" -> {"increment", "returned"}
      [] p = "increment" -> {"sample"}
      [] p = "sample" -> {"print"}
      [] p = "print" -> IF config.enable_alerts THEN {"alerts"}
                                                ELSE {"log_open"}
      [] p = "alerts" -> {"log_open"}
      [] p = "log_open" -> {"log_text", "returned"}
      [] p = "log_text" -> {"log_newline", "returned"}
      [] p = "log_newline" -> {"duration", "returned"}
      [] p = "duration" -> {"sleep", "returned"}
      [] p = "sleep" -> {"top"}
      [] OTHER -> {"entry", "entry_locked", "init", "top"}

\* Positions of a tick after its sampling / after its presentation
AfterSamplePcs == {"print", "alerts"} \cup AfterAlertsPcs
AfterPrintPcs  == {"alerts"} \cup AfterAlertsPcs

\* C17 (state part): in every iteration the snapshot sampled is the one
\* presented, the one evaluated (if alerts are enabled) and the one logged,
\* each once.
C17_OneSnapshotPerTick ==
    /\ (pc = "sample") => Len(h.samples) = iteration - 1
    /\ (pc \in AfterSamplePcs) =>
          /\ Len(h.samples) = iteration
          /\ stats = h.samples[iteration]
    /\ (pc = "print") => printed # <<iteration, stats>>
    /\ (pc \in AfterPrintPcs) => printed = <<iteration, stats>>
    /\ (pc = "alerts") => h.evals = iteration - 1
    /\ (pc \in AfterAlertsPcs) =>
          IF config.enable_alerts
          THEN alerts = check_alerts(stats, config) /\ h.evals = iteration
          ELSE alerts = <<>> /\ h.evals = 0
    /\ (pc \in {"log_open", "log_text"}) =>
          Len(logFile) = h.logBase + 2 * (iteration - 1)
    /\ (pc = "log_newline") =>
          /\ Len(logFile) = h.logBase + 2 * iteration - 1
          /\ logFile[Len(logFile)] = TextChunk(to_string(stats))
    /\ (pc \in {"duration", "sleep"}) =>
          /\ Len(logFile) = h.logBase + 2 * iteration
          /\ Len(AppendedLines) = iteration
          /\ AppendedLines[iteration] = <<to_string(stats)>>

\* C17: within every iteration the steps occur in the order flag check,
\* tick-counter increment, sample, present, alert evaluation (if enabled),
\* log append, duration check, sleep, each at most once and on the one
\* snapshot sampled in the iteration; an iteration whose flag check
\* observes a stop request does none of the later steps (tick counter, log
\* and sample count unchanged) and the call returns Ok.
C17_StepOrder ==
    /\ []C17_OneSnapshotPerTick
    /\ [][(pc' # pc) => pc' \in StepsAfter(pc)]_vars
    /\ [][(iteration' # iteration) =>
             \/ pc = "increment" /\ iteration' = iteration + 1
             \/ pc' = "entry" /\ iteration' = 0]_vars
    /\ [][(mono' # mono) => (pc \in {"sample", "sleep"} \/ pc' = "entry")]_vars
    /\ [][(pc = "check" /\ ~running) =>
             /\ pc' = "returned"
             /\ result' = "ok"
             /\ iteration' = iteration
             /\ logFile' = logFile
             /\ printed' = printed
             /\ h'.samples = h.samples
             /\ h'.ticks = h.ticks
             /\ h'.evals = h.evals]_vars

\* C17 witness: a second iteration with alerts enabled has sampled,
\* presented, evaluated (three alerts) and logged its snapshot, found the
\* duration not elapsed, and is about to sleep.
C17_Witness ==
    /\ pc = "sleep"
    /\ config.enable_alerts
    /\ iteration = 2
    /\ printed = <<2, stats>>
    /\ Len(alerts) = 3
    /\ h.evals = 2
    /\ AppendedLines[2] = <<to_string(stats)>>

\* The writes of the running flag: false from construction until the entry
\* write of the first call; set (to true) only by the entry write of
\* start_monitoring(), which sets it whatever it held; cleared only by
\* stop_monitoring().
FlagWrites ==
    /\ []((h.calls = 0 \/ (h.calls = 1 /\ pc \in {"entry", "entry_locked"}))
            => ~running)
    /\ [][(running' # running /\ running') => pc = "entry_locked"]_vars
    /\ [][(pc = "entry_locked" /\ pc' # pc) => running']_vars
    /\ [][(running' # running /\ ~running') => spc = "locked"]_vars

\* start_monitoring() returns in this step
Returns == pc # "returned" /\ pc' = "returned"

\* C19 as claimed: the flag is false from construction until
\* start_monitoring() is entered, written to true exactly once per call (at
\* entry, unconditionally) and to false only by stop_monitoring(); at the
\* moment start_monitoring() returns the flag is false iff the return was
\* caused by an observed stop request, and still true after a return caused
\* by duration expiry or a logging error.
C19_FlagFalseIffStopObserved ==
    /\ FlagWrites
    /\ [][Returns => (~running' <=> h'.cause = "stop")]_vars

\* C19 as amended: the flag is false from construction until
\* start_monitoring() is entered, written to true exactly once per call (at
\* entry, unconditionally) and to false only by stop_monitoring(); at the
\* moment start_monitoring() returns the flag is false iff a
\* stop_monitoring() has cleared it since the entry write of that call:
\* always so after a return caused by an observed stop request, and after a
\* return caused by duration expiry or an error exactly when a stop request
\* arrived after the last flag check and went unobserved.
C19_FlagFalseIffStoppedSinceEntry ==
    /\ FlagWrites
    /\ [][Returns =>
             /\ ~running' <=> h.stopT >= 0
             /\ (h'.cause = "stop") => ~running']_vars

\* C19 witness: the call returned on its duration with the flag false: a
\* stop request arrived during the final tick and was never observed.
C19_Witness ==
    /\ pc = "returned"
    /\ h.cause = "duration"
    /\ result = "ok"
    /\ h.stopT >= 0
    /\ h.stops = 1
    /\ ~running

\* The record texts among the writes of a file
TextCount(chunks) ==
    Cardinality({i \in 1..Len(chunks) : chunks[i].kind = "text"})

\* C18: when two runs (one start_monitoring() call of the runner, and the
\* peer) append to the same log_file concurrently and no write fails, every
\* record ends up as one complete line of its own, whatever
\* the interleaving of the runs' writes (the record text and its newline):
\* no line holds parts of two records, no line is empty, and the lines are
\* as many as the appends completed.
C18_OneRecordPerLine ==
    (h.calls <= 1 /\ ~h.failed
        /\ peer.pc \in {"tick", "log_text", "log_newline"}) =>
        /\ \A k \in 1..Len(Lines(logFile)) : Len(Lines(logFile)[k]) = 1
        /\ TextCount(logFile) = Len(Lines(logFile))
                                  + (IF pc = "log_newline" THEN 1 ELSE 0)
                                  + (IF peer.pc = "log_newline" THEN 1 ELSE 0)

\* The fields of a file, and a numeric field counted in thousandths
Fields(f) == split_whitespace(f.lines)
IsNumber(fld) == fld.kind \in {"int", "dec"}
Thousandths(fld) == IF fld.kind = "int" THEN fld.v * 1000 ELSE fld.v

\* A source works when it is readable and holds what its reader looks for:
\* one integer and nothing else; three leading numbers; a leading number.
ThermalWorks(f) ==
    f.ok /\ Len(Fields(f)) = 1 /\ Fields(f)[1].kind = "int"
LoadavgWorks(f) ==
    f.ok /\ Len(Fields(f)) >= 3 /\ \A i \in 1..3 : IsNumber(Fields(f)[i])
UptimeWorks(f) ==
    f.ok /\ Len(Fields(f)) >= 1 /\ IsNumber(Fields(f)[1])

\* C14: for every combination of states of the thermal, load-average,
\* hostname and uptime sources, get_system_stats() returns a snapshot
\* without error in which each field depends on its own source alone: a
\* failed source yields its sentinel (temperature 0.0, load_avg absent,
\* hostname empty, uptime 0), a working one its parsed value
\* (millidegrees / 1000, the first three load fields, the first uptime
\* field in whole seconds, 0 if negative).
C14_BestEffortPerField ==
    (pc = "read_system_stats") =>
        /\ result = "ok"
        /\ IF ThermalWorks(host.thermal)
           THEN stats.cpu.temperature.num * 1000
                   = Fields(host.thermal)[1].v * stats.cpu.temperature.den
           ELSE stats.cpu.temperature.num = 0
        /\ IF LoadavgWorks(host.loadavg)
           THEN /\ stats.cpu.load_avg.some
                /\ Len(stats.cpu.load_avg.v) = 3
                /\ \A i \in 1..3 :
                      stats.cpu.load_avg.v[i].num * 1000
                         = Thousandths(Fields(host.loadavg)[i])
                              * stats.cpu.load_avg.v[i].den
           ELSE stats.cpu.load_avg = None
        /\ stats.system_info.hostname
              = (IF host.hostname.some THEN host.hostname.v ELSE "")
        /\ IF UptimeWorks(host.uptime)
              /\ Thousandths(Fields(host.uptime)[1]) >= 0
           THEN /\ stats.system_info.uptime * 1000
                      <= Thousandths(Fields(host.uptime)[1])
                /\ Thousandths(Fields(host.uptime)[1])
                      < (stats.system_info.uptime + 1) * 1000
           ELSE stats.system_info.uptime = 0

\* C14 witness: thermal zone unreadable, /proc/loadavg with two fields, no
\* hostname, and /proc/uptime "12345.67 54321.0": sentinels for the first
\* three, 12345 for the uptime.
C14_Witness ==
    /\ pc = "read_system_stats"
    /\ ~host.thermal.ok
    /\ Len(Fields(host.loadavg)) = 2
    /\ ~host.hostname.some
    /\ stats.cpu.temperature.num = 0
    /\ stats.cpu.load_avg = None
    /\ stats.system_info.hostname = ""
    /\ Fields(host.uptime) = <<Dec(12345670), Dec(54321000)>>
    /\ stats.system_info.uptime = 12345

\* C15: get_cpu_temperature() returns a value >= 0 whatever the thermal
\* zone source holds (unreadable, unparsable, or any signed integer of
\* millidegrees), and so does the temperature of a snapshot.
C15_TemperatureNonNegative ==
    /\ (pc = "read_cpu_temperature") => stats.num >= 0
    /\ (pc = "read_system_stats") => stats.cpu.temperature.num >= 0

\* C16: whenever read_proc_stat() returns Ok, the map holds the keys
\* "user", "system" and "idle", whatever the lines of /proc/stat (with or
\* without an aggregate "cpu " line, with any number of fields on it).
C16_ProcStatKeys ==
    (pc = "read_proc_stat" /\ result = "ok") =>
        {"user", "system", "idle"} \subseteq DOMAIN stats

\* The members of an object with key k
MembersOf(doc, k) == {i \in 1..Len(doc.members) : doc.members[i][1] = k}

\* The JSON types a MonitorConfig takes for key k
TypesOf(k) ==
    IF k \in U64Keys THEN {"uint"}
    ELSE IF k \in F32Keys THEN {"uint", "negint", "float"}
    ELSE IF k = "enable_alerts" THEN {"bool"}
    ELSE {"string"}

\* A text is a MonitorConfig when it is a JSON object holding each of the
\* seven fields once, with a value of the field's type.
IsMonitorConfigText(doc) ==
    /\ doc.json
    /\ doc.object
    /\ \A k \in ConfigKeys :
          /\ Cardinality(MembersOf(doc, k)) = 1
          /\ \A i \in MembersOf(doc, k) : doc.members[i][2].t \in TypesOf(k)

\* The configuration given is malformed / is absent (null pointer, or main
\* without an argument)
MalformedGiven ==
    \/ host.given = "ffi" /\ ~host.config_json.null
         /\ ~IsMonitorConfigText(host.config_json.text)
    \/ host.given = "main" /\ host.arg
         /\ (~host.file.ok \/ ~IsMonitorConfigText(host.file.text))
NoneGiven ==
    \/ host.given = "ffi" /\ host.config_json.null
    \/ host.given = "main" /\ ~host.arg

\* C13: a malformed configuration text is rejected before the loop starts:
\* the entry point ends with status 1 and nothing else ever happens (the
\* running flag is never set, no runner is started, no sample taken, no
\* alert evaluated, no line appended); a null configuration pointer is not
\* an error and runs the loop with the default configuration.
C13_MalformedConfigRejected ==
    /\ MalformedGiven =>
          /\ pc \in {host.given, "rejected"}
          /\ ~running
          /\ h.calls = 0 /\ h.ticks = 0 /\ h.samples = <<>> /\ h.evals = 0
          /\ alerts = <<>> /\ printed = <<>> /\ logFile = <<>>
    /\ (pc = "rejected") => (MalformedGiven /\ status = 1)
    /\ NoneGiven =>
          /\ pc # "rejected"
          /\ (pc \notin {"ffi", "main"}) => config = DefaultConfig
    /\ (~MalformedGiven /\ ~NoneGiven /\ pc \notin {"ffi", "main"}) =>
          /\ config.interval = 1 /\ config.duration = 1
          /\ config.cpu_threshold = 90 /\ config.memory_threshold = 85
          /\ config.temperature_threshold = 80 /\ config.enable_alerts

\* C13 witness: run_system_monitor_with_config was given a JSON object
\* without its log_file member and has returned 1.
C13_Witness ==
    /\ pc = "rejected"
    /\ host.given = "ffi"
    /\ ~host.config_json.null
    /\ host.config_json.text.object
    /\ Len(host.config_json.text.members) = 6
    /\ MembersOf(host.config_json.text, "log_file") = {}
    /\ status = 1
    /\ ~running
    /\ logFile = <<>>

\* C13, the other half: given a null pointer the loop runs with the default
\* configuration (interval 5, alerts enabled).
C13_NullRunsDefault ==
    /\ host.given = "ffi"
    /\ host.config_json.null
    /\ pc = "sleep"
    /\ config = DefaultConfig
    /\ iteration = 1
    /\ h.evals = 1
====
